---- MODULE Spec2Model ----
(***************************************************************************)
(* Model of JenuC/file-watcher: the event handler and session of           *)
(* watcher.py (MyEventHandler, WatcherState, __main__), the FileWatcher    *)
(* class of watcher_log.py with its __main__ block, and the script test.py *)
(* that drives a FileWatcher.                                              *)
(*                                                                         *)
(* Time is counted in ticks of 1/TicksPerSecond second; datetime.now() is  *)
(* the variable now, which never goes backwards.  A path string is the     *)
(* tuple of its "/"-separated segments; a formatted string is the tuple of *)
(* the pieces the f-string concatenates.  A Python dict is the sequence of *)
(* its (key, value) items in insertion order.                              *)
(***************************************************************************)
EXTENDS Integers, Sequences, FiniteSets, TLC

\* ------------------------------------------------------------ bounds
MaxEvents == 2
MaxTicks == 2
MaxStarts == 2

\* ------------------------------------------------------- clock and units
TicksPerSecond == 2
SecondsPerMinute == 60
SecondsPerHour == 3600

\* How far the clock may move in one step: one tick, or a pause of forty
\* minutes (two of them make more than an hour).
PauseMinutes == 40
ClockSteps == {1, PauseMinutes * SecondsPerMinute * TicksPerSecond}

\* ------------------------------------------------------------ paths
None == <<>>
PathA == <<".", "a.txt">>
PathB == <<".", "b.txt">>
PathGit == <<".", ".git", "config">>
PathLog == <<".", "logs", "watcher.log">>

Kinds == {"Created", "Modified", "Deleted", "Moved"}

\* pathlib.Path(s): the parts of s, "." segments dropped.
Path(s) == SelectSeq(s, LAMBDA seg : seg # ".")

\* log_dir / f"watcher_{timestamp}.log" with log_dir = Path("./logs")
log_file_path == Path(<<".", "logs">>) \o <<"watcher.log">>

Parts(p) == {p[i] : i \in 1..Len(p)}

\* ------------------------------------------------------------ state
VARIABLES
    flow,               \* which script runs: "watcher", "main", "test", "api"
    pc,                 \* position of the main flow of control
    ret,                \* where stop() returns to once its join is over
    now,                \* the clock when it was last read, in ticks
    ticks,              \* number of times the clock was found to have moved
    file_history,       \* dict path -> list of (time, kind, dest)
    last_log_message,   \* MyEventHandler.last_log_message
    log_file,           \* lines of the log file of watcher.py
    console,            \* live lines printed by MyEventHandler's callbacks
    state_running,      \* WatcherState.running
    listener,           \* the input thread of watcher.py
    running,            \* FileWatcher.running
    observer,           \* the Observer: [id, thread, stops, joins]
    pending,            \* FileWatcher._log_event between its two statements
    report              \* what the last summary computed

vars == <<flow, pc, ret, now, ticks, file_history, last_log_message, log_file,
          console, state_running, listener, running, observer, pending, report>>

\* ------------------------------------------------------------ clock
\* The clock is read by datetime.now() alone, so time is let pass where it is
\* read: the reading is d ticks later than the one before.
Elapsed == {0} \cup ClockSteps

datetime_now(d) ==
    /\ d \in Elapsed
    /\ d # 0 => ticks < MaxTicks
    /\ now' = now + d
    /\ ticks' = IF d = 0 THEN ticks ELSE ticks + 1

\* ------------------------------------------------------------ dict helpers
Keys(d) == {d[i][1] : i \in 1..Len(d)}

IndexOf(d, k) == CHOOSE i \in 1..Len(d) : d[i][1] = k

Get(d, k) == d[IndexOf(d, k)][2]

\* d[k] = v: a new key goes to the end, an old key keeps its place.
Put(d, k, v) ==
    IF k \in Keys(d)
    THEN [d EXCEPT ![IndexOf(d, k)] = <<k, v>>]
    ELSE Append(d, <<k, v>>)

\* (mutant) d[k].insert(0, e)
AppendTo_front(d, k, e) == Put(d, k, <<e>> \o Get(d, k))

\* d[k].append(e)
AppendTo(d, k, e) == Put(d, k, Append(Get(d, k), e))

TotalEntries(d) ==
    LET RECURSIVE Sum(_)
        Sum(i) == IF i = 0 THEN 0 ELSE Len(d[i][2]) + Sum(i - 1)
    IN Sum(Len(d))

\* ------------------------------------------------------------ formatting
\* datetime.max, the sort key of a path whose list is empty.
DatetimeMax == 2147483647

\* n / d rounded to the nearest integer, a tie to the even one (what
\* the format spec .1f does with a value that lies exactly between).
RoundDiv(n, d) ==
    LET q == n \div d
        r == n % d
    IN IF 2 * r > d \/ (2 * r = d /\ q % 2 = 1) THEN q + 1 ELSE q

\* strftime("%Y-%m-%d %H:%M:%S"): the instant cut to whole seconds.
StrfDateTime(t) == t \div TicksPerSecond

\* strftime("%H:%M:%S"): hour, minute and second of the day.
StrfTime(t) ==
    LET s == (t \div TicksPerSecond) % (24 * SecondsPerHour)
    IN <<s \div SecondsPerHour, (s % SecondsPerHour) \div SecondsPerMinute,
         s % SecondsPerMinute>>

\* The unit choice and the one-decimal formatting of a duration of `d` ticks:
\* <<tenths of the unit, unit suffix>>.
FormatDuration(d, units) ==
    IF d < SecondsPerMinute * TicksPerSecond
    THEN <<RoundDiv(10 * d, TicksPerSecond), units[1]>>
    ELSE IF d < SecondsPerHour * TicksPerSecond
    THEN <<RoundDiv(10 * d, TicksPerSecond * SecondsPerMinute), units[2]>>
    ELSE <<RoundDiv(10 * d, TicksPerSecond * SecondsPerHour), units[3]>>

\* ------------------------------------------------------------ sorted()
SortKey(item) == IF item[2] # <<>> THEN item[2][1][1] ELSE DatetimeMax

\* (mutant) an insertion that puts an item before those of equal key
RECURSIVE InsertByKey_unstable(_, _)
InsertByKey_unstable(s, x) ==
    IF s = <<>> THEN <<x>>
    ELSE IF SortKey(Head(s)) < SortKey(x)
         THEN <<Head(s)>> \o InsertByKey_unstable(Tail(s), x)
         ELSE <<x>> \o s

RECURSIVE InsertByKey(_, _)
InsertByKey(s, x) ==
    IF s = <<>> THEN <<x>>
    ELSE IF SortKey(Head(s)) <= SortKey(x)
         THEN <<Head(s)>> \o InsertByKey(Tail(s), x)
         ELSE <<x>> \o s

\* sorted(d.items(), key=lambda x: x[1][0][0] if x[1] else datetime.max):
\* a stable sort, items of equal key keep the dict's order.
RECURSIVE SortedPrefix(_, _)
SortedPrefix(d, i) ==
    IF i = 0 THEN <<>> ELSE InsertByKey(SortedPrefix(d, i - 1), d[i])

sorted_files(d) == SortedPrefix(d, Len(d))

\* ------------------------------------------------------------ MyEventHandler
\* (mutant) the log file is not excluded
_is_event_relevant_git_only(file_path) == ".git" \notin Parts(Path(file_path))

\* MyEventHandler._is_event_relevant
_is_event_relevant(file_path) ==
    /\ Path(file_path) # log_file_path
    /\ ".git" \notin Parts(Path(file_path))

\* The f-string of _log_event.
LogMessage(t, event_type, file_path, dest_path) ==
    IF dest_path # None
    THEN <<StrfDateTime(t), " - ", event_type, ": ", file_path, " -> ", dest_path>>
    ELSE <<StrfDateTime(t), " - ", event_type, ": ", file_path>>

\* (mutant) a _log_event that writes its line before it looks at the memo
_log_event_writes_first(event_type, file_path, dest_path) ==
    LET current_time == now'
        log_message == LogMessage(current_time, event_type, file_path, dest_path)
        keyed == IF file_path \in Keys(file_history)
                 THEN file_history
                 ELSE Put(file_history, file_path, <<>>)
    IN /\ log_file' = Append(log_file, log_message)
       /\ IF log_message # last_log_message
          THEN /\ file_history' =
                      AppendTo(keyed, file_path, <<current_time, event_type, dest_path>>)
               /\ last_log_message' = log_message
          ELSE UNCHANGED <<file_history, last_log_message>>

\* (mutant) a _log_event that records a move under its destination too
_log_event_both_ends(event_type, file_path, dest_path) ==
    LET current_time == now'
        log_message == LogMessage(current_time, event_type, file_path, dest_path)
        entry == <<current_time, event_type, dest_path>>
        keyed == IF file_path \in Keys(file_history)
                 THEN file_history
                 ELSE Put(file_history, file_path, <<>>)
        one == AppendTo(keyed, file_path, entry)
        both == IF dest_path \in Keys(one)
                THEN AppendTo(one, dest_path, entry)
                ELSE Put(one, dest_path, <<entry>>)
    IN IF log_message # last_log_message
       THEN /\ log_file' = Append(log_file, log_message)
            /\ file_history' = IF dest_path # None THEN both ELSE one
            /\ last_log_message' = log_message
       ELSE UNCHANGED <<log_file, file_history, last_log_message>>

\* MyEventHandler._log_event: the write to the log, the history entry and
\* the memo, all or none.
_log_event(event_type, file_path, dest_path) ==
    LET current_time == now'
        log_message == LogMessage(current_time, event_type, file_path, dest_path)
        keyed == IF file_path \in Keys(file_history)
                 THEN file_history
                 ELSE Put(file_history, file_path, <<>>)
    IN IF log_message # last_log_message
       THEN /\ log_file' = Append(log_file, log_message)
            /\ file_history' =
                   AppendTo(keyed, file_path, <<current_time, event_type, dest_path>>)
            /\ last_log_message' = log_message
       ELSE UNCHANGED <<log_file, file_history, last_log_message>>

\* MyEventHandler._calculate_lifetime
_calculate_lifetime(events) ==
    IF events = <<>> THEN <<"N/A">>
    ELSE LET first_event == events[1][1]
             last_event == events[Len(events)][1]
         IN FormatDuration(last_event - first_event,
                           <<" seconds", " minutes", " hours">>)

\* One line of the Events: list of the summary.
EventLine(e) ==
    IF e[3] # None
    THEN <<"  ", StrfDateTime(e[1]), " - ", e[2], " -> ", e[3]>>
    ELSE <<"  ", StrfDateTime(e[1]), " - ", e[2]>>

\* What _print_tree renders for one item of sorted_files.
TreeBlock(item) ==
    [path |-> item[1],
     created |-> StrfDateTime(item[2][1][1]),
     lifetime |-> _calculate_lifetime(item[2]),
     events |-> [i \in 1..Len(item[2]) |-> EventLine(item[2][i])]]

\* The blocks of _print_tree, in the order of sorted_files, empty lists skipped.
RECURSIVE TreeBlocks(_)
TreeBlocks(items) ==
    IF items = <<>> THEN <<>>
    ELSE IF Head(items)[2] = <<>> THEN TreeBlocks(Tail(items))
    ELSE <<TreeBlock(Head(items))>> \o TreeBlocks(Tail(items))

\* The lines _print_tree writes to the log for the blocks.
RECURSIVE SummaryLines(_)
SummaryLines(blocks) ==
    IF blocks = <<>> THEN <<>>
    ELSE LET b == Head(blocks)
         IN <<  <<"File: ", b.path>>, <<"Created: ", b.created>>,
                <<"Lifetime: ", b.lifetime>>, <<"Events:">>  >>
            \o b.events \o << <<"">> >> \o SummaryLines(Tail(blocks))

\* MyEventHandler._print_tree
_print_tree ==
    LET blocks == TreeBlocks(sorted_files(file_history))
    IN /\ log_file' = log_file \o << <<"=== File History Summary ===">> >>
                               \o SummaryLines(blocks)
       /\ report' = blocks

\* The live line a callback prints for its notification.
LiveLine(what, src_path, dest_path) ==
    IF dest_path # None
    THEN <<StrfDateTime(now'), what, src_path, " to ", dest_path>>
    ELSE <<StrfDateTime(now'), what, src_path>>

IsLiveLine(line) == Len(line) >= 3

LiveLines(out) == SelectSeq(out, IsLiveLine)

\* The notifications the observer may deliver about `files` and the
\* directories `dirs`: a kind, the source path, the destination of a move, and
\* whether the source is a directory.
Notification(kind, files, dirs) ==
    LET dests(src) == IF kind = "Moved"
                      THEN (IF src \in dirs THEN dirs ELSE files) \ {src}
                      ELSE {None}
    IN UNION {[event_type : {kind}, src_path : {src}, dest_path : dests(src),
               is_directory : {src \in dirs}] : src \in files \cup dirs}

PathDir == <<".", "sub">>
PathDir2 == <<".", "sub2">>
WatchedDirs == {PathDir, PathDir2}

\* The paths of the tree watcher.py watches, its own log among them.
WatchedPaths == {PathA, PathB, PathGit, PathLog}

WatchedCreated == Notification("Created", WatchedPaths, WatchedDirs)
WatchedModified == Notification("Modified", WatchedPaths, WatchedDirs)
WatchedDeleted == Notification("Deleted", WatchedPaths, WatchedDirs)
WatchedMoved == Notification("Moved", WatchedPaths, WatchedDirs)

ObserverDelivers == observer.thread \in {"alive", "stopping"}

\* MyEventHandler.on_created
on_created(event, d) ==
    /\ IF ~event.is_directory /\ _is_event_relevant(event.src_path)
       THEN /\ datetime_now(d)
            /\ _log_event("Created", event.src_path, None)
            /\ console' = Append(console,
                   LiveLine(" - File created: ", event.src_path, None))
       ELSE /\ d = 0
            /\ UNCHANGED <<log_file, file_history, last_log_message, console,
                           now, ticks>>
    /\ UNCHANGED <<flow, pc, ret, state_running, listener, running,
                   observer, pending, report>>

\* MyEventHandler.on_modified
on_modified(event, d) ==
    /\ IF ~event.is_directory /\ _is_event_relevant(event.src_path)
       THEN /\ datetime_now(d)
            /\ _log_event("Modified", event.src_path, None)
            /\ console' = Append(console,
                   LiveLine(" - File modified: ", event.src_path, None))
       ELSE /\ d = 0
            /\ UNCHANGED <<log_file, file_history, last_log_message, console,
                           now, ticks>>
    /\ UNCHANGED <<flow, pc, ret, state_running, listener, running,
                   observer, pending, report>>

\* MyEventHandler.on_deleted
on_deleted(event, d) ==
    /\ IF ~event.is_directory /\ _is_event_relevant(event.src_path)
       THEN /\ datetime_now(d)
            /\ _log_event("Deleted", event.src_path, None)
            /\ console' = Append(console,
                   LiveLine(" - File deleted: ", event.src_path, None))
       ELSE /\ d = 0
            /\ UNCHANGED <<log_file, file_history, last_log_message, console,
                           now, ticks>>
    /\ UNCHANGED <<flow, pc, ret, state_running, listener, running,
                   observer, pending, report>>

\* MyEventHandler.on_moved
on_moved(event, d) ==
    /\ IF /\ ~event.is_directory
          /\ _is_event_relevant(event.src_path)
          /\ _is_event_relevant(event.dest_path)
       THEN /\ datetime_now(d)
            /\ _log_event("Moved", event.src_path, event.dest_path)
            /\ console' = Append(console,
                   LiveLine(" - File moved from ", event.src_path, event.dest_path))
       ELSE /\ d = 0
            /\ UNCHANGED <<log_file, file_history, last_log_message, console,
                           now, ticks>>
    /\ UNCHANGED <<flow, pc, ret, state_running, listener, running,
                   observer, pending, report>>

\* The observer thread of watcher.py takes a notification from its queue and
\* calls the callback of its kind.
MyEventHandler_dispatch ==
    /\ flow = "watcher" /\ ObserverDelivers
    /\ Len(LiveLines(console)) < MaxEvents
    /\ \/ \E event \in WatchedCreated, d \in Elapsed : on_created(event, d)
       \/ \E event \in WatchedModified, d \in Elapsed : on_modified(event, d)
       \/ \E event \in WatchedDeleted, d \in Elapsed : on_deleted(event, d)
       \/ \E event \in WatchedMoved, d \in Elapsed : on_moved(event, d)

\* ------------------------------------------------------------ watcher.py __main__
\* observer.schedule(...); observer.start(); state = WatcherState();
\* input_thread.start()
WatcherSetup ==
    /\ flow = "watcher" /\ pc = "w_setup"
    /\ observer' = [id |-> 1, thread |-> "alive", stops |-> 0, joins |-> 0]
    /\ state_running' = TRUE
    /\ listener' = "input"
    /\ pc' = "w_loop"
    /\ UNCHANGED <<flow, ret, now, ticks, file_history, last_log_message, log_file,
                   console, running, pending, report>>

\* The lines the user may type, as tuples of characters.
InputLines == { <<":", "q">>, <<" ", ":", "q", " ">>, <<"q">>, <<>> }

Whitespace == {" "}

\* str.strip()
RECURSIVE lstrip(_)
lstrip(s) ==
    IF s # <<>> /\ Head(s) \in Whitespace THEN lstrip(Tail(s)) ELSE s

RECURSIVE rstrip(_)
rstrip(s) ==
    IF s # <<>> /\ s[Len(s)] \in Whitespace
    THEN rstrip(SubSeq(s, 1, Len(s) - 1)) ELSE s

strip(s) == rstrip(lstrip(s))

\* check_user_input: input() returns a line; the thread is back in input()
\* unless the line is the quit command or the flag was cleared meanwhile.
ListenerRead(user_input) ==
    /\ flow = "watcher" /\ listener = "input" /\ pc # "w_done"
    /\ IF strip(user_input) = <<":", "q">>
       THEN state_running' = FALSE /\ listener' = "exited"
       ELSE /\ state_running' = state_running
            /\ listener' = IF state_running THEN "input" ELSE "exited"
    /\ UNCHANGED <<flow, pc, ret, now, ticks, file_history, last_log_message,
                   log_file, console, running, observer, pending, report>>

\* (mutant) a wait loop that may end whatever the flag says
WatcherLoopExit_any ==
    /\ flow = "watcher" /\ pc = "w_loop"
    /\ pc' = "w_finally"
    /\ UNCHANGED <<flow, ret, now, ticks, file_history, last_log_message, log_file,
                   console, state_running, listener, running, observer, pending,
                   report>>

\* The main flow leaves `while state.running: time.sleep(0.1)`.
WatcherLoopExit ==
    /\ flow = "watcher" /\ pc = "w_loop" /\ ~state_running
    /\ pc' = "w_finally"
    /\ UNCHANGED <<flow, ret, now, ticks, file_history, last_log_message, log_file,
                   console, state_running, listener, running, observer, pending,
                   report>>

\* except KeyboardInterrupt
WatcherInterrupt ==
    /\ flow = "watcher" /\ pc = "w_loop"
    /\ state_running' = FALSE
    /\ console' = Append(console, <<"Watcher stopped by user.">>)
    /\ pc' = "w_finally"
    /\ UNCHANGED <<flow, ret, now, ticks, file_history, last_log_message, log_file,
                   listener, running, observer, pending, report>>

\* Observer.stop(): the thread is told to stop; a stopped one stays so.
ObserverStopped(o) ==
    [o EXCEPT !.thread = IF @ = "alive" THEN "stopping" ELSE @,
              !.stops = @ + 1]

\* finally: observer.stop()
WatcherObserverStop ==
    /\ flow = "watcher" /\ pc = "w_finally"
    /\ observer' = ObserverStopped(observer)
    /\ pc' = "w_join"
    /\ UNCHANGED <<flow, ret, now, ticks, file_history, last_log_message, log_file,
                   console, state_running, listener, running, pending, report>>

\* finally: observer.join() returns once the observer thread has ended
WatcherObserverJoin ==
    /\ flow = "watcher" /\ pc = "w_join"
    /\ observer.thread = "dead"
    /\ observer' = [observer EXCEPT !.joins = @ + 1]
    /\ pc' = "w_print"
    /\ UNCHANGED <<flow, ret, now, ticks, file_history, last_log_message, log_file,
                   console, state_running, listener, running, pending, report>>

RECURSIVE Panels(_)
Panels(blocks) ==
    IF blocks = <<>> THEN <<>>
    ELSE << <<"Panel", Head(blocks)>>, <<>> >> \o Panels(Tail(blocks))

\* finally: event_handler._print_tree(); console.print("Watcher finished.")
WatcherPrintTree ==
    /\ flow = "watcher" /\ pc = "w_print"
    /\ _print_tree
    /\ console' = console \o Panels(TreeBlocks(sorted_files(file_history)))
                          \o << <<"Watcher finished.">> >>
    /\ pc' = "w_done"
    /\ UNCHANGED <<flow, ret, now, ticks, file_history, last_log_message,
                   state_running, listener, running, observer, pending>>

\* The observer thread ends: it was told to stop and no callback is under way.
ObserverExit ==
    /\ observer.thread = "stopping"
    /\ pending = <<>>
    /\ observer' = [observer EXCEPT !.thread = "dead"]
    /\ UNCHANGED <<flow, pc, ret, now, ticks, file_history, last_log_message,
                   log_file, console, state_running, listener, running, pending,
                   report>>

\* ------------------------------------------------------------ FileWatcher
\* FileWatcher._is_event_relevant
FileWatcher_is_event_relevant(file_path) == ".git" \notin Parts(Path(file_path))

\* (mutant) measured against the instant of the call whatever the last event
FileWatcher_calculate_lifetime_to_now(events, t) ==
    IF events = <<>> THEN <<"N/A">>
    ELSE FormatDuration(t - events[1][1], <<"s", "m", "h">>)

\* FileWatcher._calculate_lifetime, called at instant t
FileWatcher_calculate_lifetime(events, t) ==
    IF events = <<>> THEN <<"N/A">>
    ELSE LET first_event == events[1][1]
             lifetime == IF events[Len(events)][2] = "Deleted"
                         THEN events[Len(events)][1] - first_event
                         ELSE t - first_event
         IN FormatDuration(lifetime, <<"s", "m", "h">>)

\* The string get_file_lifetimes builds for one item, at instant t:
\* f"{path} (c{creation_str}, m{last_str}) dt = {diff_str}"
LifetimeOutput(item, t) ==
    LET events == item[2]
        creation_time == events[1][1]
        last_time == IF events[Len(events)][2] = "Deleted"
                     THEN events[Len(events)][1]
                     ELSE t
        diff_str == FormatDuration(last_time - creation_time, <<"s", "m", "h">>)
    IN <<item[1], " (c", StrfTime(creation_time), ", m", StrfTime(last_time),
         ") dt = ", diff_str>>

RECURSIVE LifetimeOutputs(_, _)
LifetimeOutputs(items, t) ==
    IF items = <<>> THEN <<>>
    ELSE IF Head(items)[2] = <<>> THEN LifetimeOutputs(Tail(items), t)
    ELSE <<LifetimeOutput(Head(items), t)>> \o LifetimeOutputs(Tail(items), t)

\* (mutant) a report that shows a placeholder when there is nothing to show
get_file_lifetimes_placeholder(d, t) ==
    IF LifetimeOutputs(sorted_files(d), t) = <<>>
    THEN << <<"N/A">> >>
    ELSE LifetimeOutputs(sorted_files(d), t)

\* FileWatcher.get_file_lifetimes, called at instant t
get_file_lifetimes(d, t) == LifetimeOutputs(sorted_files(d), t)

\* The paths of the tree a FileWatcher watches.
FileWatcherPaths == {PathA, PathB, PathGit}

FileWatcherCreated == Notification("Created", FileWatcherPaths, WatchedDirs)
FileWatcherModified == Notification("Modified", FileWatcherPaths, WatchedDirs)
FileWatcherDeleted == Notification("Deleted", FileWatcherPaths, WatchedDirs)
FileWatcherMoved == Notification("Moved", FileWatcherPaths, WatchedDirs)

\* FileWatcher._log_event.  For a path seen for the first time it is two
\* steps, the empty list and then the append, with the other threads free to
\* run in between; for a known path the append is its only effect.
FileWatcher_log_event(event_type, file_path, dest_path) ==
    LET current_time == now'
    IN IF file_path \in Keys(file_history)
       THEN /\ file_history' = AppendTo(file_history, file_path,
                                        <<current_time, event_type, dest_path>>)
            /\ pending' = pending
       ELSE /\ file_history' = Put(file_history, file_path, <<>>)
            /\ pending' = <<file_path, <<current_time, event_type, dest_path>> >>

\* FileWatcher._log_event: self.file_history[file_path].append(...)
FileWatcher_log_event_append ==
    /\ pending # <<>>
    /\ file_history' = AppendTo(file_history, pending[1], pending[2])
    /\ pending' = <<>>
    /\ UNCHANGED <<flow, pc, ret, now, ticks, last_log_message, log_file, console,
                   state_running, listener, running, observer, report>>

Recorded == TotalEntries(file_history) + (IF pending = <<>> THEN 0 ELSE 1)

\* EventHandler.on_created
EventHandler_on_created(event, d) ==
    /\ IF ~event.is_directory /\ FileWatcher_is_event_relevant(event.src_path)
       THEN /\ datetime_now(d)
            /\ FileWatcher_log_event("Created", event.src_path, None)
       ELSE /\ d = 0
            /\ UNCHANGED <<file_history, pending, now, ticks>>
    /\ UNCHANGED <<flow, pc, ret, last_log_message, log_file, console,
                   state_running, listener, running, observer, report>>

\* EventHandler.on_modified
EventHandler_on_modified(event, d) ==
    /\ IF ~event.is_directory /\ FileWatcher_is_event_relevant(event.src_path)
       THEN /\ datetime_now(d)
            /\ FileWatcher_log_event("Modified", event.src_path, None)
       ELSE /\ d = 0
            /\ UNCHANGED <<file_history, pending, now, ticks>>
    /\ UNCHANGED <<flow, pc, ret, last_log_message, log_file, console,
                   state_running, listener, running, observer, report>>

\* EventHandler.on_deleted
EventHandler_on_deleted(event, d) ==
    /\ IF ~event.is_directory /\ FileWatcher_is_event_relevant(event.src_path)
       THEN /\ datetime_now(d)
            /\ FileWatcher_log_event("Deleted", event.src_path, None)
       ELSE /\ d = 0
            /\ UNCHANGED <<file_history, pending, now, ticks>>
    /\ UNCHANGED <<flow, pc, ret, last_log_message, log_file, console,
                   state_running, listener, running, observer, report>>

\* EventHandler.on_moved
EventHandler_on_moved(event, d) ==
    /\ IF /\ ~event.is_directory
          /\ FileWatcher_is_event_relevant(event.src_path)
          /\ FileWatcher_is_event_relevant(event.dest_path)
       THEN /\ datetime_now(d)
            /\ FileWatcher_log_event("Moved", event.src_path, event.dest_path)
       ELSE /\ d = 0
            /\ UNCHANGED <<file_history, pending, now, ticks>>
    /\ UNCHANGED <<flow, pc, ret, last_log_message, log_file, console,
                   state_running, listener, running, observer, report>>

\* The observer thread of a FileWatcher takes a notification from its queue
\* and calls the callback of its kind; one callback runs at a time.
EventHandler_dispatch ==
    /\ flow # "watcher" /\ ObserverDelivers /\ pending = <<>>
    /\ Recorded < MaxEvents
    /\ \/ \E event \in FileWatcherCreated, d \in Elapsed :
              EventHandler_on_created(event, d)
       \/ \E event \in FileWatcherModified, d \in Elapsed :
              EventHandler_on_modified(event, d)
       \/ \E event \in FileWatcherDeleted, d \in Elapsed :
              EventHandler_on_deleted(event, d)
       \/ \E event \in FileWatcherMoved, d \in Elapsed :
              EventHandler_on_moved(event, d)

\* FileWatcher.start
start ==
    IF running
    THEN UNCHANGED <<running, observer>>
    ELSE /\ running' = TRUE
         /\ observer' = [id |-> observer.id + 1, thread |-> "alive",
                         stops |-> 0, joins |-> 0]

\* FileWatcher.start when observer.schedule() or observer.start() raises (the
\* path is missing, inaccessible or no directory): running was set and the
\* observer created before, the observer thread never starts, and the
\* exception goes to the caller.
start_fails ==
    /\ ~running
    /\ running' = TRUE
    /\ observer' = [id |-> observer.id + 1, thread |-> "unstarted",
                    stops |-> 0, joins |-> 0]

\* (mutant) stop() without its early return
stop_always(next) ==
    /\ running' = FALSE
    /\ IF observer.id # 0
       THEN /\ observer' = ObserverStopped(observer)
            /\ pc' = "join"
            /\ ret' = next
       ELSE /\ pc' = next
            /\ UNCHANGED <<observer, ret>>

\* FileWatcher.stop up to its join, called at a place that goes on at `next`:
\* the early return, or running = False and observer.stop().
stop(next) ==
    IF ~running
    THEN /\ pc' = next
         /\ UNCHANGED <<running, observer, ret>>
    ELSE /\ running' = FALSE
         /\ IF observer.id # 0
            THEN /\ observer' = ObserverStopped(observer)
                 /\ pc' = "join"
                 /\ ret' = next
            ELSE /\ pc' = next
                 /\ UNCHANGED <<observer, ret>>

\* FileWatcher.stop: self.observer.join() returns, and stop with it
StopJoin ==
    /\ flow # "watcher" /\ pc = "join"
    /\ observer.thread = "dead"
    /\ observer' = [observer EXCEPT !.joins = @ + 1]
    /\ pc' = ret
    /\ UNCHANGED <<flow, ret, now, ticks, file_history, last_log_message, log_file,
                   console, state_running, listener, running, pending, report>>

\* ------------------------------------------------------------ any caller of a FileWatcher
\* A caller that holds a FileWatcher and calls its methods in any order;
\* report is what its last call returned (None for start and stop).
ApiStart ==
    /\ flow = "api" /\ pc = "api"
    /\ running \/ observer.id < MaxStarts
    /\ start
    /\ report' = None
    /\ UNCHANGED <<flow, pc, ret, now, ticks, file_history, last_log_message,
                   log_file, console, state_running, listener, pending>>

ApiStartFails ==
    /\ flow = "api" /\ pc = "api"
    /\ observer.id < MaxStarts
    /\ start_fails
    /\ report' = None
    /\ UNCHANGED <<flow, pc, ret, now, ticks, file_history, last_log_message,
                   log_file, console, state_running, listener, pending>>

\* stop() after a start() that failed: observer.join() raises RuntimeError
\* (the thread was never started) and stop() ends with it.
ApiStopJoinRaises ==
    /\ flow = "api" /\ pc = "join"
    /\ observer.thread = "unstarted"
    /\ pc' = ret
    /\ UNCHANGED <<flow, ret, now, ticks, file_history, last_log_message, log_file,
                   console, state_running, listener, running, observer, pending,
                   report>>

ApiStop ==
    /\ flow = "api" /\ pc = "api"
    /\ stop("api")
    /\ report' = None
    /\ UNCHANGED <<flow, now, ticks, file_history, last_log_message, log_file,
                   console, state_running, listener, pending>>

ApiGetFileLifetimes(d) ==
    /\ flow = "api" /\ pc = "api"
    /\ datetime_now(d)
    /\ report' = get_file_lifetimes(file_history, now')
    /\ UNCHANGED <<flow, pc, ret, file_history, last_log_message,
                   log_file, console, state_running, listener, running, observer,
                   pending>>

\* ------------------------------------------------------------ watcher_log.py __main__
\* with FileWatcher() as watcher: __enter__ calls start()
MainEnter ==
    /\ flow = "main" /\ pc = "m_enter"
    /\ start
    /\ pc' = "m_loop"
    /\ UNCHANGED <<flow, ret, now, ticks, file_history, last_log_message, log_file,
                   console, state_running, listener, pending, report>>

\* __enter__ raises: the with block is not entered, __exit__ is not called,
\* the script ends with the exception.
MainEnterFails ==
    /\ flow = "main" /\ pc = "m_enter"
    /\ start_fails
    /\ pc' = "m_failed"
    /\ UNCHANGED <<flow, ret, now, ticks, file_history, last_log_message, log_file,
                   console, state_running, listener, pending, report>>

\* except KeyboardInterrupt: watcher.stop().  Nothing else ends the loop
\* `while watcher.running`: only stop() clears the flag.
MainInterrupt ==
    /\ flow = "main" /\ pc = "m_loop"
    /\ stop("m_report")
    /\ UNCHANGED <<flow, now, ticks, file_history, last_log_message, log_file,
                   console, state_running, listener, pending, report>>

\* lifetimes = watcher.get_file_lifetimes(); the lines are printed
MainReport(d) ==
    /\ flow = "main" /\ pc = "m_report"
    /\ datetime_now(d)
    /\ report' = get_file_lifetimes(file_history, now')
    /\ pc' = "m_exit"
    /\ UNCHANGED <<flow, ret, file_history, last_log_message, log_file,
                   console, state_running, listener, running, observer, pending>>

\* The with block ends: __exit__ calls stop()
MainExit ==
    /\ flow = "main" /\ pc = "m_exit"
    /\ stop("m_done")
    /\ UNCHANGED <<flow, now, ticks, file_history, last_log_message, log_file,
                   console, state_running, listener, pending, report>>

\* ------------------------------------------------------------ test.py
\* with FileWatcher(".") as watcher
TestEnter ==
    /\ flow = "test" /\ pc = "t_enter"
    /\ start
    /\ pc' = "t_progress"
    /\ UNCHANGED <<flow, ret, now, ticks, file_history, last_log_message, log_file,
                   console, state_running, listener, pending, report>>

\* __enter__ raises: the script ends with the exception.
TestEnterFails ==
    /\ flow = "test" /\ pc = "t_enter"
    /\ start_fails
    /\ pc' = "t_failed"
    /\ UNCHANGED <<flow, ret, now, ticks, file_history, last_log_message, log_file,
                   console, state_running, listener, pending, report>>

\* The progress loop is finished and the with block ends: __exit__ calls stop()
TestExit ==
    /\ flow = "test" /\ pc = "t_progress"
    /\ stop("t_report")
    /\ UNCHANGED <<flow, now, ticks, file_history, last_log_message, log_file,
                   console, state_running, listener, pending, report>>

\* lifetimes = watcher.get_file_lifetimes()
TestReport(d) ==
    /\ flow = "test" /\ pc = "t_report"
    /\ datetime_now(d)
    /\ report' = get_file_lifetimes(file_history, now')
    /\ pc' = "t_print"
    /\ UNCHANGED <<flow, ret, file_history, last_log_message, log_file,
                   console, state_running, listener, running, observer, pending>>

\* `for path, lifetime in lifetimes` unpacks an element into two names: the
\* element must yield exactly two items.  A str yields its characters, at
\* least one for each piece it was built from.
UnpacksIntoTwo(element) == Len(element) = 2

\* if lifetimes: ... for path, lifetime in lifetimes: print(...)
\* else: print("No file changes detected.")
TestPrint ==
    /\ flow = "test" /\ pc = "t_print"
    /\ pc' = IF \A i \in 1..Len(report) : UnpacksIntoTwo(report[i])
             THEN "t_done"
             ELSE "t_error"
    /\ UNCHANGED <<flow, ret, now, ticks, file_history, last_log_message, log_file,
                   console, state_running, listener, running, observer, pending,
                   report>>

\* ------------------------------------------------------------ specification
FirstPc(f) ==
    CASE f = "watcher" -> "w_setup"
      [] f = "main" -> "m_enter"
      [] f = "test" -> "t_enter"
      [] OTHER -> "api"

\* The state once the script's objects are constructed and before anything
\* is started.
InitOf(flows) ==
    /\ flow \in flows
    /\ pc = FirstPc(flow)
    /\ ret = "none"
    /\ now = 0
    /\ ticks = 0
    /\ file_history = <<>>
    /\ last_log_message = None
    /\ log_file = <<>>
    /\ console = <<>>
    /\ state_running = FALSE
    /\ listener = "none"
    /\ running = FALSE
    /\ observer = [id |-> 0, thread |-> "none", stops |-> 0, joins |-> 0]
    /\ pending = <<>>
    /\ report = None

WatcherNext ==
    \/ MyEventHandler_dispatch
    \/ WatcherSetup
    \/ \E user_input \in InputLines : ListenerRead(user_input)
    \/ WatcherLoopExit
    \/ WatcherInterrupt
    \/ WatcherObserverStop
    \/ WatcherObserverJoin
    \/ WatcherPrintTree

FileWatcherNext ==
    \/ EventHandler_dispatch
    \/ FileWatcher_log_event_append
    \/ StopJoin

MainNext ==
    \/ MainEnter
    \/ MainEnterFails
    \/ MainInterrupt
    \/ \E d \in Elapsed : MainReport(d)
    \/ MainExit

TestNext ==
    \/ TestEnter
    \/ TestEnterFails
    \/ TestExit
    \/ \E d \in Elapsed : TestReport(d)
    \/ TestPrint

ApiNext ==
    \/ ApiStart
    \/ ApiStartFails
    \/ ApiStopJoinRaises
    \/ ApiStop
    \/ \E d \in Elapsed : ApiGetFileLifetimes(d)

\* The three scripts of the repository: watcher.py, watcher_log.py, test.py.
Init == InitOf({"watcher", "main", "test"})

Next == WatcherNext \/ ObserverExit \/ FileWatcherNext \/ MainNext \/ TestNext

Spec == Init /\ [][Next]_vars

\* A FileWatcher under its two scripts and under a caller that calls its
\* methods in any order.
InitFileWatcher == InitOf({"main", "test", "api"})

NextFileWatcher ==
    ObserverExit \/ FileWatcherNext \/ MainNext \/ TestNext \/ ApiNext

SpecFileWatcher == InitFileWatcher /\ [][NextFileWatcher]_vars

\* watcher.py alone, with the progress its threads make by themselves: the
\* main flow goes on from statement to statement (a sleep returns, stop() and
\* _print_tree() return), a stopped observer thread ends and join() then
\* returns.  Nothing is assumed of the user (lines typed, interrupts) nor
\* of the notifications delivered.
InitWatcher == InitOf({"watcher"})

NextWatcher == WatcherNext \/ ObserverExit

\* The steps watcher.py takes by itself once they are possible.
WatcherProgress ==
    \/ WatcherLoopExit
    \/ WatcherObserverStop
    \/ ObserverExit
    \/ WatcherObserverJoin
    \/ WatcherPrintTree

SpecWatcher == InitWatcher /\ [][NextWatcher]_vars /\ WF_vars(WatcherProgress)

\* ------------------------------------------------------------ vocabulary of the claims
Items == {file_history[i] : i \in 1..Len(file_history)}

FirstTime(events) == events[1][1]
LastTime(events) == events[Len(events)][1]
LastKind(events) == events[Len(events)][2]

\* The instants at which a lifetime may be asked for from this state on.
QueryTimes == {now + d : d \in Elapsed}

\* A path with a `.git` segment, or the path of the log file.
HasGitSegment(p) == \E i \in 1..Len(p) : p[i] = ".git"
IsLogFile(p) == SelectSeq(p, LAMBDA seg : seg # ".") = <<"logs", "watcher.log">>
IrrelevantPath(p) == HasGitSegment(p) \/ IsLogFile(p)
IrrelevantNotification(event) ==
    \/ IrrelevantPath(event.src_path)
    \/ event.dest_path # None /\ IrrelevantPath(event.dest_path)

\* The lines of the log that record an event (the summary's lines are shorter
\* or of even length).
IsEventLogLine(line) == Len(line) \in {5, 7}

\* ------------------------------------------------------------ C1
\* C1 (as claimed): in MyEventHandler, for every path, file_history[path] has
\* no two adjacent entries with the same event kind and the same destination.
C1_NoAdjacentSameKind ==
    flow = "watcher" =>
        \A item \in Items : \A i \in 1..(Len(item[2]) - 1) :
            ~(item[2][i][2] = item[2][i + 1][2] /\ item[2][i][3] = item[2][i + 1][3])

\* ------------------------------------------------------------ C2
\* The paths whose last entry is as late as any entry of the history: when
\* there is one only, its last entry is the last event admitted.
LatestPaths ==
    {item[1] : item \in {it \in Items :
        /\ it[2] # <<>>
        /\ \A other \in Items :
              \A i \in 1..Len(other[2]) : other[2][i][1] <= LastTime(it[2])}}

\* C2 (as claimed): in FileWatcher, a notification that repeats the one
\* delivered just before it (same kind, path and destination) adds no entry:
\* no step appends to the path of the last admitted entry an entry of the
\* same kind and destination.
C2_RepeatAddsNoEntry ==
    [][flow # "watcher" =>
        \A item \in Items :
            (LatestPaths = {item[1]} /\ item[1] \in Keys(file_history')) =>
                LET events == item[2]
                    after == Get(file_history', item[1])
                IN ~(/\ Len(after) = Len(events) + 1
                     /\ after[Len(after)][2] = LastKind(events)
                     /\ after[Len(after)][3] = events[Len(events)][3])]_vars

\* ------------------------------------------------------------ C3
IrrelevantCreated == {e \in WatchedCreated : IrrelevantNotification(e)}
IrrelevantModified == {e \in WatchedModified : IrrelevantNotification(e)}
IrrelevantDeleted == {e \in WatchedDeleted : IrrelevantNotification(e)}
IrrelevantMoved == {e \in WatchedMoved : IrrelevantNotification(e)}

\* The step is the callback of an irrelevant notification.
C3_IrrelevantDelivered ==
    \E d \in Elapsed :
        \/ \E event \in IrrelevantCreated : on_created(event, d)
        \/ \E event \in IrrelevantModified : on_modified(event, d)
        \/ \E event \in IrrelevantDeleted : on_deleted(event, d)
        \/ \E event \in IrrelevantMoved : on_moved(event, d)

C3_NothingRecorded ==
    /\ \A item \in Items :
          /\ ~IrrelevantPath(item[1])
          /\ \A i \in 1..Len(item[2]) :
                item[2][i][3] # None => ~IrrelevantPath(item[2][i][3])
    /\ \A i \in 1..Len(log_file) :
          IsEventLogLine(log_file[i]) =>
              /\ ~IrrelevantPath(log_file[i][5])
              /\ Len(log_file[i]) = 7 => ~IrrelevantPath(log_file[i][7])
    /\ last_log_message # None =>
          /\ ~IrrelevantPath(last_log_message[5])
          /\ Len(last_log_message) = 7 => ~IrrelevantPath(last_log_message[7])

\* C3: in MyEventHandler, for each of the four kinds, the delivery of a
\* notification whose path (for a move: source or destination) has a `.git`
\* segment or is the log file leaves file_history, last_log_message and the
\* log file unchanged, and none of the three ever names such a path.
C3_IrrelevantNeverRecorded ==
    /\ [](flow = "watcher" => C3_NothingRecorded)
    /\ [][flow = "watcher" =>
              \/ UNCHANGED <<file_history, last_log_message, log_file>>
              \/ ~C3_IrrelevantDelivered]_vars

\* A state of watcher.py in which irrelevant notifications are being
\* delivered (the observer runs, the history and the memo are not empty):
\* their delivery leads back to this very state.
C3_Witness ==
    /\ flow = "watcher" /\ ObserverDelivers
    /\ Len(LiveLines(console)) < MaxEvents
    /\ file_history # <<>> /\ last_log_message # None /\ log_file # <<>>
    /\ \E event \in WatchedMoved :
          /\ ~IrrelevantPath(event.src_path) /\ ~event.is_directory
          /\ IrrelevantPath(event.dest_path)

\* ------------------------------------------------------------ C4
\* The items of the history whose list is not empty.
Recorded_items == {item \in Items : item[2] # <<>>}

\* What each class computes as the lifetime of `events` when asked at t.
Lifetime(events, t) ==
    IF flow = "watcher"
    THEN _calculate_lifetime(events)
    ELSE FileWatcher_calculate_lifetime(events, t)

Units == IF flow = "watcher"
         THEN <<" seconds", " minutes", " hours">>
         ELSE <<"s", "m", "h">>

\* C4 (as claimed): for a path whose last event is not Deleted, the lifetime
\* either class reports when asked at t is that of the duration t - (time of
\* the path's first event), for every instant t from now on.
C4_LiveLifetimeFollowsQuery ==
    \A item \in Recorded_items :
        LastKind(item[2]) # "Deleted" =>
            \A t \in QueryTimes :
                Lifetime(item[2], t) = FormatDuration(t - FirstTime(item[2]), Units)

\* ------------------------------------------------------------ C5
\* The scripts' flows have computed their report (the history does not
\* change afterwards).
ReportDone == pc \in {"w_done", "m_exit", "m_done", "t_print", "t_done", "t_error"}

\* The lifetime the report shows for `path`.
ReportedLifetime(path) ==
    IF flow = "watcher"
    THEN {report[i].lifetime : i \in {j \in 1..Len(report) : report[j].path = path}}
    ELSE {report[i][7] : i \in {j \in 1..Len(report) : report[j][1] = path}}

\* C5: for a path whose first event is at t0 and whose last event is Deleted
\* at t1 > t0, the lifetime either class computes is the (one-decimal,
\* unit-scaled) rendering of t1 - t0 at whatever instant it is asked for, and
\* the report of the scripts shows that value.
C5_DeletedLifetimeFrozen ==
    \A item \in Recorded_items :
        LET events == item[2]
            frozen == FormatDuration(LastTime(events) - FirstTime(events), Units)
        IN (LastKind(events) = "Deleted" /\ LastTime(events) > FirstTime(events)) =>
              /\ \A t \in QueryTimes : Lifetime(events, t) = frozen
              /\ (flow # "api" /\ ReportDone) => ReportedLifetime(item[1]) = {frozen}

\* watcher_log.py has printed its report, asked for later than the deletion
\* of a path that lived for some time.
C5_Witness ==
    /\ flow = "main" /\ pc = "m_done"
    /\ \E item \in Recorded_items :
          /\ LastKind(item[2]) = "Deleted"
          /\ LastTime(item[2]) > FirstTime(item[2])
          /\ now > LastTime(item[2])
          /\ ReportedLifetime(item[1]) # {}

\* ------------------------------------------------------------ C6
\* The session of a FileWatcher is Idle until its first start().
Idle == observer.id = 0

\* C6 (as claimed): start() on a session that is not Idle creates and starts
\* no observer and leaves running, observer and file_history as they are.
C6_StartWhenNotIdleIsNoOp ==
    [][(ApiStart /\ ~Idle) => UNCHANGED <<running, observer, file_history>>]_vars

\* ------------------------------------------------------------ C7
\* A step in which stop() is called.
StopCalled == ApiStop \/ MainInterrupt \/ MainExit \/ TestExit

\* C7: stop() called while running is False changes none of running, observer
\* and file_history and does not wait for a join; no observer is ever
\* stopped or joined twice.
C7_StopWhenNotRunningIsNoOp ==
    /\ [](flow # "watcher" => observer.stops <= 1 /\ observer.joins <= 1)
    /\ [][(StopCalled /\ ~running) =>
              /\ UNCHANGED <<running, observer, file_history>>
              /\ pc' # "join"]_vars

\* watcher_log.py is through: the with block's __exit__ has called stop()
\* after the explicit stop() of the interrupt handler.
C7_Witness ==
    /\ flow = "main" /\ pc = "m_done"
    /\ ~running /\ observer.id = 1
    /\ observer.stops = 1 /\ observer.joins = 1

\* ------------------------------------------------------------ C8
\* stop() (in watcher.py: observer.stop(); observer.join()) has returned.
StopHasReturned ==
    IF flow = "watcher"
    THEN pc \in {"w_print", "w_done"}
    ELSE \/ observer.id >= 2
         \/ observer.id = 1 /\ ~running /\ pc # "join"

\* C8 (as claimed): once stop() has returned no entry is appended to
\* file_history, and the scripts compute their summary only after that.
C8_HistoryFrozenAfterStop ==
    /\ [](flow # "api" /\ report # None => StopHasReturned)
    /\ [][StopHasReturned => file_history' = file_history]_vars

\* ------------------------------------------------------------ C9
\* The paths of the report computed at instant t, in its order.
ReportPaths(t) ==
    IF flow = "watcher"
    THEN LET blocks == TreeBlocks(sorted_files(file_history))
         IN [i \in 1..Len(blocks) |-> blocks[i].path]
    ELSE LET lifetimes == get_file_lifetimes(file_history, t)
         IN [i \in 1..Len(lifetimes) |-> lifetimes[i][1]]

\* The paths of the report the script has computed.
StoredReportPaths ==
    [i \in 1..Len(report) |->
        IF flow = "watcher" THEN report[i].path ELSE report[i][1]]

FirstSeen(path) == FirstTime(Get(file_history, path))

\* p comes before q: first seen earlier, or at the same instant and inserted
\* into the history earlier.
FirstSeenBefore(p, q) ==
    \/ FirstSeen(p) < FirstSeen(q)
    \/ FirstSeen(p) = FirstSeen(q) /\ IndexOf(file_history, p) < IndexOf(file_history, q)

\* C9: the report lists the paths that have events, each once, in ascending
\* order of the time of their first event, paths of equal first time in the
\* order of their insertion into the history; the order is the same at
\* whatever instant the report is computed, and it is the order of the
\* report the scripts have computed.
C9_ReportOrder ==
    /\ LET paths == ReportPaths(now)
       IN /\ \A i, j \in 1..Len(paths) :
                 i < j => FirstSeenBefore(paths[i], paths[j])
          /\ {paths[i] : i \in 1..Len(paths)} = {item[1] : item \in Recorded_items}
          /\ \A t \in QueryTimes : ReportPaths(t) = paths
    /\ (flow # "api" /\ ReportDone) => StoredReportPaths = ReportPaths(now)

\* watcher_log.py has reported two paths first seen at the same instant,
\* b.txt inserted before a.txt.
C9_Witness ==
    /\ flow = "main" /\ pc = "m_done"
    /\ Len(report) = 2
    /\ report[1][1] = PathB /\ report[2][1] = PathA
    /\ FirstSeen(PathA) = FirstSeen(PathB)

\* ------------------------------------------------------------ C10
\* C10 (as claimed): what get_file_lifetimes() returns after stop has one
\* element for each path that has events, every element a pair of the path
\* and its lifetime, so that test.py's loop unpacks each of them.
C10_ReportOfPairs ==
    (flow # "watcher" /\ report # None /\ ~running) =>
        /\ Len(report) = Cardinality(Recorded_items)
        /\ \A i \in 1..Len(report) :
              /\ UnpacksIntoTwo(report[i])
              /\ report[i][1] \in {item[1] : item \in Recorded_items}
        /\ pc # "t_error"

\* ------------------------------------------------------------ C11
\* What the console and the log of watcher.py hold once _print_tree has run
\* on a history without entries: the header of the summary and the two
\* closing messages, no block and no panel.
EmptySummary ==
    /\ SelectSeq(log_file, LAMBDA line : ~IsEventLogLine(line))
           = << <<"=== File History Summary ===">> >>
    /\ \A i \in 1..Len(console) : IsLiveLine(console[i]) \/ Len(console[i]) = 1

\* C11: as long as no event is recorded, the report is empty at whatever
\* instant it is computed (get_file_lifetimes returns the empty sequence,
\* _print_tree renders no block: nothing stands in for the missing paths),
\* the report the scripts computed is empty, and test.py does not end in an
\* error.
C11_EmptySessionEmptyReport ==
    Recorded_items = {} =>
        /\ \A t \in QueryTimes : get_file_lifetimes(file_history, t) = <<>>
        /\ TreeBlocks(sorted_files(file_history)) = <<>>
        /\ (flow # "api" /\ ReportDone) => report = <<>>
        /\ pc # "t_error"
        /\ (flow = "watcher" /\ pc = "w_done") => EmptySummary

\* test.py is through its else branch after a session without events: the
\* observer ran and was joined, the history is empty.
C11_Witness ==
    /\ flow = "test" /\ pc = "t_done"
    /\ file_history = <<>> /\ report = <<>>
    /\ observer.id = 1 /\ observer.joins = 1

\* ------------------------------------------------------------ C12
\* C12: for every path, the timestamps of its entries never decrease along
\* the sequence, in MyEventHandler and in FileWatcher, the entry FileWatcher
\* is about to append to a new key included.  (The readings of the clock
\* themselves never decrease in this model.)
C12_TimestampsNonDecreasing ==
    /\ \A item \in Items :
          \A i \in 1..(Len(item[2]) - 1) : item[2][i][1] <= item[2][i + 1][1]
    /\ pending # <<>> =>
          \A item \in Recorded_items : LastTime(item[2]) <= pending[2][1]

\* A FileWatcher has recorded two events of one path at different instants.
C12_Witness ==
    /\ flow = "main"
    /\ \E item \in Items :
          /\ Len(item[2]) >= 2
          /\ FirstTime(item[2]) < LastTime(item[2])

\* ------------------------------------------------------------ C13
\* A step in which start() fails.
StartFails == ApiStartFails \/ MainEnterFails \/ TestEnterFails

\* C13 (as claimed): after a start() that failed running is False, and a
\* stop() that follows it returns at once: it changes neither running nor
\* the observer and does not try to join.
C13_FailedStartNotRunning ==
    /\ [][StartFails => running' = FALSE]_vars
    /\ [][(StopCalled /\ observer.thread = "unstarted") =>
              /\ UNCHANGED <<running, observer>>
              /\ pc' # "join"]_vars

\* ------------------------------------------------------------ C14
\* C14 (as claimed): when watcher.py reads the history for its report, and
\* ever after, the observer thread is dead and joined and the input
\* listener has ended.
C14_ReportAfterBothStopped ==
    (flow = "watcher" /\ pc \in {"w_print", "w_done"}) =>
        /\ observer.thread = "dead" /\ observer.joins = 1
        /\ listener = "exited"

\* ------------------------------------------------------------ C15
\* watcher.py has printed its report: the observer was stopped and joined,
\* _print_tree has written the summary and the closing message is out.
WatcherReported ==
    /\ pc = "w_done"
    /\ observer.thread = "dead" /\ observer.stops = 1 /\ observer.joins = 1
    /\ \E i \in 1..Len(log_file) : log_file[i] = <<"=== File History Summary ===">>
    /\ console # <<>> /\ console[Len(console)] = <<"Watcher finished.">>

\* C15: in watcher.py, once the flag state.running is cleared after the
\* setup (the listener has read a line that strips to ":q", or the main flow
\* was interrupted in its wait loop), the session eventually has stopped
\* and joined the observer and printed the report; and the wait loop is
\* left only with the flag cleared or by an interrupt.
C15_StopLeadsToReport ==
    /\ (flow = "watcher" /\ pc # "w_setup" /\ ~state_running) ~> WatcherReported
    /\ [][(flow = "watcher" /\ pc = "w_loop" /\ pc' # "w_loop") =>
              (~state_running \/ WatcherInterrupt)]_vars
    /\ [][(flow = "watcher" /\ state_running /\ ~state_running') =>
              \/ WatcherInterrupt
              \/ \E user_input \in InputLines :
                     /\ strip(user_input) = <<":", "q">>
                     /\ ListenerRead(user_input)]_vars

\* watcher.py has ended on the quit command: no interrupt message was
\* printed, the listener has ended, the report is out.
C15_Witness ==
    /\ flow = "watcher" /\ WatcherReported
    /\ listener = "exited"
    /\ \A i \in 1..Len(console) : console[i] # <<"Watcher stopped by user.">>

\* ------------------------------------------------------------ C16
\* C16 (as claimed): MyEventHandler prints a live line for a notification
\* only when it has admitted it: the console holds as many live lines as the
\* history holds entries.
C16_LiveLineOnlyIfAdmitted ==
    flow = "watcher" => Len(LiveLines(console)) = TotalEntries(file_history)

\* ------------------------------------------------------------ C17
IsPrefix(s, t) == Len(s) <= Len(t) /\ SubSeq(t, 1, Len(s)) = s

\* The list of key k in history d, empty when k is no key.
EntriesOf(d, k) == IF k \in Keys(d) THEN Get(d, k) ELSE <<>>

\* The step is the callback of `event`, of either class.
Delivered(event, d) ==
    IF flow = "watcher"
    THEN \/ event.event_type = "Created" /\ on_created(event, d)
         \/ event.event_type = "Modified" /\ on_modified(event, d)
         \/ event.event_type = "Deleted" /\ on_deleted(event, d)
         \/ event.event_type = "Moved" /\ on_moved(event, d)
    ELSE \/ event.event_type = "Created" /\ EventHandler_on_created(event, d)
         \/ event.event_type = "Modified" /\ EventHandler_on_modified(event, d)
         \/ event.event_type = "Deleted" /\ EventHandler_on_deleted(event, d)
         \/ event.event_type = "Moved" /\ EventHandler_on_moved(event, d)

Notifications ==
    WatchedCreated \cup WatchedModified \cup WatchedDeleted \cup WatchedMoved

\* The history after the step is the history before it with `entry` at the
\* end of the list of key k (a new key, if it is one, after all the others),
\* or, in FileWatcher for a new key, with the key in place and the entry
\* about to be appended.
ExtendedBy(k, entry) ==
    LET grown == IF k \in Keys(file_history)
                 THEN AppendTo(file_history, k, entry)
                 ELSE Append(file_history, <<k, <<entry>> >>)
    IN \/ file_history' = grown /\ pending' = pending
       \/ /\ flow # "watcher" /\ k \notin Keys(file_history)
          /\ file_history' = Append(file_history, <<k, <<>> >>)
          /\ pending' = <<k, entry>>

\* C17: in both classes every step leaves the history as it is or extends
\* it at the end of one list: all keys keep their place and their entries,
\* one entry at most is added.  The callback of an admitted notification
\* adds its entry (the instant read, the kind, the destination) to the list
\* of its source path, and the second step of FileWatcher's append to a new
\* key adds the entry that was waiting.
C17_AppendOnly ==
    [][\/ file_history' = file_history
       \/ /\ Len(file_history') \in {Len(file_history), Len(file_history) + 1}
          /\ \A i \in 1..Len(file_history) :
                /\ file_history'[i][1] = file_history[i][1]
                /\ IsPrefix(file_history[i][2], file_history'[i][2])
          /\ TotalEntries(file_history') <= TotalEntries(file_history) + 1
          /\ \A event \in Notifications, d \in Elapsed :
                Delivered(event, d) =>
                    ExtendedBy(event.src_path,
                               <<now', event.event_type, event.dest_path>>)
          /\ FileWatcher_log_event_append =>
                file_history' = AppendTo(file_history, pending[1], pending[2])]_vars

\* A move is recorded at the end of the list of its source path, and its
\* destination is no key of the history.
C17_Witness ==
    \E item \in Items :
        /\ Len(item[2]) >= 2
        /\ LastKind(item[2]) = "Moved"
        /\ item[2][Len(item[2])][3] \notin Keys(file_history)

\* ------------------------------------------------------------ C18
\* The step starts an observer: the session enters Running.
EntersRunning == observer'.id # observer.id /\ observer'.thread = "alive"

\* C18 (as claimed): whenever a FileWatcher enters Running its history is
\* empty.
C18_HistoryEmptyAtStart ==
    [][(flow # "watcher" /\ EntersRunning) => file_history' = <<>>]_vars

\* ------------------------------------------------------------ C19
\* The lines of the log that record events, in the order written.
EventLogLines == SelectSeq(log_file, IsEventLogLine)

\* The line the log is to hold for entry e of path p.
LineOf(p, e) ==
    IF e[3] # None
    THEN <<StrfDateTime(e[1]), " - ", e[2], ": ", p, " -> ", e[3]>>
    ELSE <<StrfDateTime(e[1]), " - ", e[2], ": ", p>>

\* C19: in MyEventHandler the log holds one event line for each entry of the
\* history: as many lines as entries, the lines about a path being those of
\* its entries in their order, and the timestamps of the lines never
\* decreasing; a step that adds no entry writes no event line.  (The
\* summary's lines, once written, are no event lines.)
C19_LogLinePerAdmittedEvent ==
    /\ [](flow = "watcher" =>
            /\ Len(EventLogLines) = TotalEntries(file_history)
            /\ \A item \in Items :
                  SelectSeq(EventLogLines, LAMBDA line : line[5] = item[1])
                      = [i \in 1..Len(item[2]) |-> LineOf(item[1], item[2][i])]
            /\ \A i \in 1..(Len(EventLogLines) - 1) :
                  EventLogLines[i][1] <= EventLogLines[i + 1][1])
    /\ [][(flow = "watcher" /\ file_history' = file_history) =>
              SelectSeq(log_file', IsEventLogLine) = EventLogLines]_vars

\* MyEventHandler was delivered two notifications and admitted one: the
\* other was suppressed and wrote no line.
C19_Witness ==
    /\ flow = "watcher"
    /\ Len(LiveLines(console)) = 2
    /\ TotalEntries(file_history) = 1
    /\ Len(EventLogLines) = 1

\* ------------------------------------------------------------ C20
\* C20 (as claimed): a get_file_lifetimes() called while the session runs
\* never finds a path in file_history whose list is empty.
C20_ReaderNeverSeesEmptyList ==
    [][(running /\ \E d \in Elapsed : ApiGetFileLifetimes(d)) =>
           \A item \in Items : item[2] # <<>>]_vars

====
